---- MODULE Spec2Model ----
(***************************************************************************)
(* Model of js/sudoku.js (src/unnamed/part_002): the unique-solution       *)
(* Sudoku generator for 4x4, 6x6 and 9x9 grids.                            *)
(*                                                                         *)
(* A grid is a sequence of rows, each a sequence of values; At and Set     *)
(* read and write the cell board[row][col] of the code with its 0-based    *)
(* indices, and the blank cell '' of the code is Blank.  Math.random is a    *)
(* pseudo-random generator: `rnd' is its internal state, every call of     *)
(* rngInt reads one number from it and advances it, and the initial state  *)
(* is drawn from a bounded set of seeds.  The two recursive searches        *)
(* (solveBoard and countSolutions' backtrack) run as steps over an         *)
(* explicit call stack: `board' is the array they mutate in place, `stack' *)
(* holds one frame per active invocation, `pc' is the position of the      *)
(* running script and `ret' the place the running search returns to.       *)
(***************************************************************************)
EXTENDS Integers, Sequences, FiniteSets, TLC

Blank == 0

ValidSizes == {4, 6, 9}

Idx(size) == 0 .. (size - 1)

Cells(size) == Idx(size) \X Idx(size)

\* Array.from({ length: size }, () => Array(size).fill(''))
EmptyBoard(size) == [r \in 1 .. size |-> [c \in 1 .. size |-> Blank]]

\* grid[row][col]
At(grid, row, col) == grid[row + 1][col + 1]

\* grid[row][col] = v
SetAt(seq, k, v) == SubSeq(seq, 1, k) \o <<v>> \o SubSeq(seq, k + 2, Len(seq))

Set(grid, row, col, v) == SetAt(grid, row, SetAt(grid[row + 1], col, v))

(***************************************************************************)
(* Utilities (lines 56-72)                                                 *)
(***************************************************************************)

\* Math.random(): the generator state s stands for the number s / 65537.
RndNext(s) == (75 * s + 74) % 65537

\* The state reached from seed k before the page's first request.
SeedState(k) == RndNext(RndNext(RndNext(k)))

\* rngInt(n) = Math.floor(Math.random() * n)
rngInt(n, s) == (s * n) \div 65537

Swap(arr, a, b) == [arr EXCEPT ![a] = arr[b], ![b] = arr[a]]

\* One pass of the loop of shuffle, at index i (0-based), on the array and
\* the state of Math.random in st.
ShufflePass(st, i) ==
  LET j == rngInt(i + 1, st.rnd)
  IN [arr |-> Swap(st.arr, i + 1, j + 1), rnd |-> RndNext(st.rnd)]

\* The passes of the loop of shuffle from index hi down to index lo, first
\* the upper half of them and then the lower.
RECURSIVE ShuffleFrom(_, _, _)
ShuffleFrom(st, hi, lo) ==
  IF hi < lo THEN st
  ELSE IF hi = lo THEN ShufflePass(st, hi)
  ELSE LET mid == (hi + lo) \div 2
       IN CHOOSE out \in {ShuffleFrom(upper, mid, lo) :
                            upper \in {ShuffleFrom(st, hi, mid + 1)}} : TRUE

\* shuffle(arr): Fisher-Yates, in place; returns the array and the new rnd.
shuffle(arr, s) ==
  CHOOSE out \in {ShuffleFrom(st, Len(st.arr) - 1, 1) : st \in {[arr |-> arr, rnd |-> s]}} : TRUE

\* The numbers without the last one.
OneToNShort(size) == [k \in 1 .. size - 1 |-> k]

\* [...Array(size)].map((_, i) => i + 1)
OneToN(size) == [k \in 1 .. size |-> k]

\* Math.floor(Math.sqrt(size))
FloorSqrt(size) == CHOOSE r \in 0 .. size : r * r <= size /\ (r + 1) * (r + 1) > size

\* getBoxDims with the 6x6 box of 3 rows and 2 columns.
getBoxDimsTall(size) ==
  IF size = 6 THEN [boxRows |-> 3, boxCols |-> 2]
  ELSE LET r == FloorSqrt(size)
       IN [boxRows |-> r, boxCols |-> size \div r]

\* getBoxDims(size).  size / r is exact for every size the model requests.
getBoxDims(size) ==
  IF size = 6 THEN [boxRows |-> 2, boxCols |-> 3]
  ELSE LET r == FloorSqrt(size)
       IN [boxRows |-> r, boxCols |-> size \div r]

(***************************************************************************)
(* Rules (lines 75-87)                                                     *)
(***************************************************************************)

\* isValid without the pass over the box: the rules of a Latin square.
isValidNoBox(board, row, col, num, size, boxRows, boxCols) ==
  \A i \in Idx(size) : ~(At(board, row, i) = num \/ At(board, i, col) = num)

\* isValid with the column test of line 77 left out.
isValidNoCol(board, row, col, num, size, boxRows, boxCols) ==
  /\ \A i \in Idx(size) : At(board, row, i) # num
  /\ LET boxStartRow == row - (row % boxRows)
         boxStartCol == col - (col % boxCols)
     IN \A r \in 0 .. (boxRows - 1) : \A c \in 0 .. (boxCols - 1) :
          At(board, boxStartRow + r, boxStartCol + c) # num

\* isValid with the pass over the box starting at the corner of the grid.
isValidFirstBox(board, row, col, num, size, boxRows, boxCols) ==
  /\ \A i \in Idx(size) : ~(At(board, row, i) = num \/ At(board, i, col) = num)
  /\ \A r \in 0 .. (boxRows - 1) : \A c \in 0 .. (boxCols - 1) : At(board, r, c) # num

\* isValid(board, row, col, num, size, boxRows, boxCols)
isValid(board, row, col, num, size, boxRows, boxCols) ==
  /\ \A i \in Idx(size) : ~(At(board, row, i) = num \/ At(board, i, col) = num)
  /\ LET boxStartRow == row - (row % boxRows)
         boxStartCol == col - (col % boxCols)
     IN \A r \in 0 .. (boxRows - 1) : \A c \in 0 .. (boxCols - 1) :
          At(board, boxStartRow + r, boxStartCol + c) # num

VARIABLES
  rnd,          \* state of Math.random
  pc,           \* position of the running script; "idle" between handlers
  ret,          \* position a running search returns to
  board,        \* the grid a search works on (board / test in the code)
  stack,        \* frames of the active solveBoard or backtrack invocations
  solved,       \* value returned by the last solveBoard call
  count,        \* countSolutions: count
  limit,        \* countSolutions: limit
  size,         \* the size argument of the running function
  seedI,        \* generateSolvedGrid: the loop index i of the seeding loop
  full,         \* generateUniquePuzzle: full
  puzzle,       \* generateUniquePuzzle: puzzle
  positions,    \* generateUniquePuzzle: positions, shuffled
  i,            \* generateUniquePuzzle: the loop index i of the carving loop
  blanks,       \* generateUniquePuzzle: blanks
  targetBlanks, \* generateUniquePuzzle: targetBlanks
  seen,         \* generateUniquePuzzle: seen, as a set of cells
  removed,      \* generateUniquePuzzle: removed, of the running iteration
  solution,     \* the module-level solution
  hintCount,    \* the module-level hintCount
  currentSize,  \* the module-level currentSize
  difficulty,   \* value of the #difficulty control
  dom,          \* the .cell inputs of #board: value and readOnly of each
  storage,      \* localStorage: the four sudoku* items, or NoSave
  loaded,       \* what the last loadSavedGame did
  acts          \* number of things the player has done so far

searchVars == <<rnd, pc, ret, board, stack, solved, count, limit, size>>

genVars == <<seedI, full, puzzle, positions, i, blanks, targetBlanks, seen, removed>>

pageVars == <<solution, hintCount, currentSize, difficulty, dom, storage, loaded, acts>>

vars == <<searchVars, genVars, pageVars>>

boxRows == getBoxDims(size).boxRows

boxCols == getBoxDims(size).boxCols

Top(stk) == stk[Len(stk)]

Pop(stk) == SubSeq(stk, 1, Len(stk) - 1)

(***************************************************************************)
(* Solver, first solution (lines 91-111)                                   *)
(***************************************************************************)

\* Row-major index of the last blank cell, or size * size when none.
LastBlank(b, n) ==
  LET blankIdx == {p[1] * n + p[2] : p \in {q \in Cells(n) : At(b, q[1], q[2]) = Blank}}
  IN IF blankIdx = {} THEN n * n
     ELSE CHOOSE m \in blankIdx : \A x \in blankIdx : m >= x

\* Row-major index of the first blank cell, or size * size when none
\* (lines 93-95).
FirstBlank(b, n) ==
  LET blankIdx == {p[1] * n + p[2] : p \in {q \in Cells(n) : At(b, q[1], q[2]) = Blank}}
  IN IF blankIdx = {} THEN n * n
     ELSE CHOOSE m \in blankIdx : \A x \in blankIdx : m <= x

\* Entry of solveBoard (lines 92-97 and 110).  With no blank cell the call
\* returns true, and so does every invocation below it (line 102).
SolveBoardEnter ==
  /\ pc = "solveBoard"
  /\ LET first == FirstBlank(board, size)
     IN IF first = size * size
        THEN /\ solved' = TRUE
             /\ stack' = <<>>
             /\ pc' = ret
             /\ rnd' = rnd
        ELSE LET sh == shuffle(OneToN(size), rnd)
             IN /\ stack' = Append(stack, [row |-> first \div size, col |-> first % size,
                                           nums |-> sh.arr, k |-> 1])
                /\ pc' = "solveLoop"
                /\ rnd' = sh.rnd
                /\ solved' = solved
  /\ UNCHANGED <<ret, board, count, limit, size, genVars, pageVars>>

\* One pass of the loop over nums (lines 98-105): a legal number is written
\* and solveBoard is called again, any other number is passed over.
SolveBoardTry ==
  /\ pc = "solveLoop"
  /\ Top(stack).k <= Len(Top(stack).nums)
  /\ LET f == Top(stack)
         num == f.nums[f.k]
     IN IF isValid(board, f.row, f.col, num, size, boxRows, boxCols)
        THEN /\ board' = Set(board, f.row, f.col, num)
             /\ pc' = "solveBoard"
             /\ stack' = stack
        ELSE /\ stack' = [stack EXCEPT ![Len(stack)].k = f.k + 1]
             /\ UNCHANGED <<board, pc>>
  /\ UNCHANGED <<rnd, ret, solved, count, limit, size, genVars, pageVars>>

\* The loop over nums is exhausted: return false (line 106).  The caller, if
\* it is solveBoard, blanks its cell again and moves on (lines 103, 98).
SolveBoardFail ==
  /\ pc = "solveLoop"
  /\ Top(stack).k > Len(Top(stack).nums)
  /\ IF Len(stack) = 1
     THEN /\ solved' = FALSE
          /\ stack' = <<>>
          /\ pc' = ret
          /\ board' = board
     ELSE LET g == stack[Len(stack) - 1]
          IN /\ board' = Set(board, g.row, g.col, Blank)
             /\ stack' = [Pop(stack) EXCEPT ![Len(stack) - 1].k = g.k + 1]
             /\ UNCHANGED <<solved, pc>>
  /\ UNCHANGED <<rnd, ret, count, limit, size, genVars, pageVars>>

(***************************************************************************)
(* Solution counter (lines 118-164)                                        *)
(***************************************************************************)

\* The numbers of a set in ascending order.
Ascending(S) ==
  CHOOSE seq \in {[k \in 1 .. Cardinality(T) |->
                    CHOOSE v \in T : Cardinality({w \in T : w < v}) = k - 1] :
                  T \in {S}} : TRUE

\* opts with the loop of line 132 stopping one number early (n < size).
OptsBelowSize(b, r, c, n, br, bc) ==
  Ascending({v \in 1 .. n - 1 : isValid(b, r, c, v, n, br, bc)})

\* opts of lines 131-134: the legal numbers of a blank cell, ascending.
Opts(b, r, c, n, br, bc) ==
  Ascending({v \in 1 .. n : isValid(b, r, c, v, n, br, bc)})

\* bestR = -1, bestC = -1, bestOpts = null  (line 126)
NoBest ==
  [r |-> -1, c |-> -1, opts |-> <<>>, null |-> TRUE, dead |-> FALSE, done |-> FALSE]

\* The body of the loops without the return of line 135: a blank cell without
\* a legal number is a cell like the others.
ScanCellNoDeadEnd(b, idx, best, n, br, bc) ==
  LET r == idx \div n
      c == idx % n
  IN IF At(b, r, c) # Blank THEN best
     ELSE CHOOSE out \in
            {IF best.null \/ Len(opts) < Len(best.opts)
             THEN [r |-> r, c |-> c, opts |-> opts, null |-> FALSE,
                   dead |-> FALSE, done |-> Len(opts) = 1]
             ELSE best :
             opts \in {Opts(b, r, c, n, br, bc)}} : TRUE

\* The body of the loops with <= for < at line 136: of the cells with equally
\* few legal numbers the last one scanned is kept.
ScanCellLastTie(b, idx, best, n, br, bc) ==
  LET r == idx \div n
      c == idx % n
  IN IF At(b, r, c) # Blank THEN best
     ELSE CHOOSE out \in
            {IF Len(opts) = 0 THEN [best EXCEPT !.dead = TRUE, !.done = TRUE]
             ELSE IF best.null \/ Len(opts) <= Len(best.opts)
                  THEN [r |-> r, c |-> c, opts |-> opts, null |-> FALSE,
                        dead |-> FALSE, done |-> Len(opts) = 1]
                  ELSE best :
             opts \in {Opts(b, r, c, n, br, bc)}} : TRUE

\* The body of the loops of lines 129-143 at the cell of row-major index
\* idx, with the best cell found before it.  The scan is over (done) at a
\* blank cell without a legal number (dead) and at the first blank cell with
\* exactly one.
ScanCell(b, idx, best, n, br, bc) ==
  LET r == idx \div n
      c == idx % n
  IN IF At(b, r, c) # Blank THEN best
     ELSE CHOOSE out \in
            {IF Len(opts) = 0 THEN [best EXCEPT !.dead = TRUE, !.done = TRUE]
             ELSE IF best.null \/ Len(opts) < Len(best.opts)
                  THEN [r |-> r, c |-> c, opts |-> opts, null |-> FALSE,
                        dead |-> FALSE, done |-> Len(opts) = 1]
                  ELSE best :
             opts \in {Opts(b, r, c, n, br, bc)}} : TRUE

\* The scan of lines 126-144 over the cells of row-major index lo to hi,
\* first the lower half of them and then the upper, as far as it gets.
RECURSIVE ScanRange(_, _, _, _, _, _, _)
ScanRange(b, lo, hi, best, n, br, bc) ==
  IF best.done \/ hi < lo THEN best
  ELSE IF lo = hi THEN ScanCell(b, lo, best, n, br, bc)
  ELSE LET mid == (lo + hi) \div 2
       IN CHOOSE out \in {ScanRange(b, mid + 1, hi, lower, n, br, bc) :
                            lower \in {ScanRange(b, lo, mid, best, n, br, bc)}} : TRUE

\* The scan of lines 126-144 of the whole grid.
Scan(b, n, br, bc) ==
  CHOOSE out \in {ScanRange(g, 0, n * n - 1, NoBest, n, br, bc) : g \in {b}} : TRUE

\* The return that leaves the caller's cell filled.
BacktrackReturnFilled(stk) ==
  IF stk = <<>>
  THEN /\ stack' = <<>>
       /\ pc' = ret
       /\ board' = board
  ELSE LET g == Top(stk)
       IN /\ board' = board
          /\ stack' = [stk EXCEPT ![Len(stk)].i = g.i + 1]
          /\ pc' = "countLoop"

\* Return from backtrack() with the frames stk of its callers: the caller
\* blanks the cell it had filled and moves to its next candidate (lines
\* 158, 154); without a caller countSolutions returns (lines 162-163).
BacktrackReturn(stk) ==
  IF stk = <<>>
  THEN /\ stack' = <<>>
       /\ pc' = ret
       /\ board' = board
  ELSE LET g == Top(stk)
       IN /\ board' = Set(board, g.r, g.c, Blank)
          /\ stack' = [stk EXCEPT ![Len(stk)].i = g.i + 1]
          /\ pc' = "countLoop"

\* The early exit at the first solution, whatever the limit.
AtLimitFirst(cnt, lim) == cnt >= 1

\* The early exit with > for >=.
AtLimitPassed(cnt, lim) == cnt > lim

\* if (count >= limit) return;  (line 122)
AtLimit(cnt, lim) == cnt >= lim

\* Entry of backtrack (lines 122-153).
BacktrackEnter ==
  /\ pc = "backtrack"
  /\ IF AtLimit(count, limit)
     THEN /\ BacktrackReturn(stack)
          /\ UNCHANGED <<count, rnd>>
     ELSE \E best \in {Scan(board, size, boxRows, boxCols)} :
            IF best.dead
            THEN /\ BacktrackReturn(stack)
                 /\ UNCHANGED <<count, rnd>>
            ELSE IF best.null
                 THEN /\ count' = count + 1
                      /\ BacktrackReturn(stack)
                      /\ rnd' = rnd
                 ELSE \E sh \in {shuffle(best.opts, rnd)} :
                        /\ stack' = Append(stack, [r |-> best.r, c |-> best.c,
                                                   opts |-> sh.arr, i |-> 1])
                        /\ rnd' = sh.rnd
                        /\ pc' = "countLoop"
                        /\ UNCHANGED <<count, board>>
  /\ UNCHANGED <<ret, solved, limit, size, genVars, pageVars>>

\* The loop over the candidates without the test of count.
LoopToTheEnd(f, cnt, lim) == f.i <= Len(f.opts)

\* The loop that tries only the first candidate of the shuffled list.
LoopFirstOnly(f, cnt, lim) == f.i <= 1 /\ f.i <= Len(f.opts) /\ cnt < lim

\* i < bestOpts.length && count < limit  (line 154)
LoopGoesOn(f, cnt, lim) == f.i <= Len(f.opts) /\ cnt < lim

\* The loop over the candidates (lines 154-159): the next one is written and
\* backtrack is called, or the loop ends and this invocation returns.
BacktrackLoop ==
  /\ pc = "countLoop"
  /\ LET f == Top(stack)
     IN IF LoopGoesOn(f, count, limit)
        THEN /\ board' = Set(board, f.r, f.c, f.opts[f.i])
             /\ pc' = "backtrack"
             /\ stack' = stack
        ELSE BacktrackReturn(Pop(stack))
  /\ UNCHANGED <<rnd, ret, solved, count, limit, size, genVars, pageVars>>

(***************************************************************************)
(* Rendering and state (lines 263-330)                                     *)
(***************************************************************************)

NoGrid == <<>>

NoDom == [n |-> 0, value |-> <<>>, readOnly |-> <<>>]

NoSave == [n |-> 0, puzzle |-> <<>>, solution |-> <<>>, hintCount |-> 0, difficulty |-> 0]

\* renderBoard(grid) for a grid of n rows: a value that is not '' is shown
\* in a read-only input (lines 295-302).
renderBoard(grid, n) ==
  [n |-> n,
   value |-> [p \in Cells(n) |-> At(grid, p[1], p[2])],
   readOnly |-> [p \in Cells(n) |-> At(grid, p[1], p[2]) # Blank]]

\* saveGameState(puzzle, solutionIn, hintCountIn, size); n is puzzle.length.
saveGameState(puzzleIn, n, solutionIn, hintCountIn, sizeIn) ==
  [n |-> n, puzzle |-> puzzleIn, solution |-> solutionIn,
   hintCount |-> hintCountIn, difficulty |-> sizeIn]

(***************************************************************************)
(* Puzzle generation (lines 167-260)                                       *)
(***************************************************************************)

\* Math.min(size, 6) of line 172
Seeds(n) == IF n < 6 THEN n ELSE 6

\* The target with 0.7 for 0.6.
TargetBlanksMore(n) == (n * n * 7) \div 10

\* Math.floor(size * size * 0.6) of line 212
TargetBlanks(n) == (n * n * 6) \div 10

\* positions of lines 205-208, before the shuffle: row-major.
AllPositions(n) == [k \in 1 .. n * n |-> <<(k - 1) \div n, (k - 1) % n>>]

\* startGame up to the call of generateSolvedGrid (lines 342-346, 195,
\* 168-172).
StartGame ==
  /\ pc = "startGame"
  /\ currentSize' = difficulty
  /\ hintCount' = 3
  /\ size' = difficulty
  /\ board' = EmptyBoard(difficulty)
  /\ seedI' = 0
  /\ stack' = <<>>
  /\ pc' = "seed"
  /\ UNCHANGED <<rnd, ret, solved, count, limit, full, puzzle, positions, i, blanks,
                 targetBlanks, seen, removed, solution, difficulty, dom, storage, loaded, acts>>

\* The number written by one pass of the seeding loop at a blank cell: the
\* first of nums that isValid accepts (lines 177-182), or Blank.
FirstValid(b, row, col, nums, n, br, bc) ==
  LET ok == {k \in 1 .. Len(nums) : isValid(b, row, col, nums[k], n, br, bc)}
  IN IF ok = {} THEN Blank
     ELSE nums[CHOOSE k \in ok : \A x \in ok : k <= x]

\* One pass of the seeding loop of generateSolvedGrid (lines 173-184).
SeedStep ==
  /\ pc = "seed"
  /\ seedI < Seeds(size)
  /\ LET row == rngInt(size, rnd)
         s1 == RndNext(rnd)
         col == rngInt(size, s1)
         s2 == RndNext(s1)
     IN IF At(board, row, col) = Blank
        THEN LET sh == shuffle(OneToN(size), s2)
                 n == FirstValid(board, row, col, sh.arr, size, boxRows, boxCols)
             IN /\ board' = Set(board, row, col, n)
                /\ rnd' = sh.rnd
        ELSE /\ board' = board
             /\ rnd' = s2
  /\ seedI' = seedI + 1
  /\ UNCHANGED <<pc, ret, stack, solved, count, limit, size, full, puzzle, positions,
                 i, blanks, targetBlanks, seen, removed, pageVars>>

\* The first call of solveBoard, on the seeded grid (line 186).
SeedSolve ==
  /\ pc = "seed"
  /\ seedI >= Seeds(size)
  /\ pc' = "solveBoard"
  /\ ret' = "seedSolved"
  /\ UNCHANGED <<rnd, board, stack, solved, count, limit, size, genVars, pageVars>>

\* A copy that holds the first row of the grid in every row.
deepCopyFirstRow(grid) == [r \in 1 .. Len(grid) |-> grid[1]]

\* deepCopy = (grid) => grid.map(row => row.slice())  (line 65)
deepCopy(grid) == [r \in 1 .. Len(grid) |-> SubSeq(grid[r], 1, Len(grid[r]))]

\* generateSolvedGrid returns board; lines 198-216 of generateUniquePuzzle.
CarveSetup(b) ==
  LET sh == shuffle(AllPositions(size), rnd)
  IN /\ full' = b
     /\ solution' = deepCopy(b)
     /\ puzzle' = deepCopy(b)
     /\ positions' = sh.arr
     /\ rnd' = sh.rnd
     /\ targetBlanks' = TargetBlanks(size)
     /\ blanks' = 0
     /\ seen' = {}
     /\ i' = 0
     /\ removed' = <<>>
     /\ pc' = "carve"

\* The fallback without the clearing of the rows.
ClearNothing(b, n) == b

\* for (let r = 0; r < size; r++) board[r].fill('');  (line 189)
ClearBoard(b, n) == [r \in 1 .. n |-> [c \in 1 .. Len(b[r]) |-> Blank]]

\* The first solveBoard has returned (lines 186-191): on false every row is
\* blanked and solveBoard is called again, on true the grid is returned.
SeedSolved ==
  /\ pc = "seedSolved"
  /\ IF ~solved
     THEN /\ board' = ClearBoard(board, size)
          /\ pc' = "solveBoard"
          /\ ret' = "fallbackSolved"
          /\ UNCHANGED <<rnd, full, puzzle, positions, i, blanks, targetBlanks, seen,
                         removed, solution>>
     ELSE /\ CarveSetup(board)
          /\ UNCHANGED <<board, ret>>
  /\ UNCHANGED <<stack, solved, count, limit, size, seedI, hintCount, currentSize,
                 difficulty, dom, storage, loaded, acts>>

\* The fallback solveBoard has returned; its result is not read (lines
\* 189-191).
FallbackSolved ==
  /\ pc = "fallbackSolved"
  /\ CarveSetup(board)
  /\ UNCHANGED <<ret, board, stack, solved, count, limit, size, seedI, hintCount,
                 currentSize, difficulty, dom, storage, loaded, acts>>

\* tryRemove(rr, cc) of lines 232-237 on the pair <<puzzle, removed>>.
tryRemove(st, rr, cc) ==
  IF At(st.puzzle, rr, cc) # Blank
  THEN [puzzle |-> Set(st.puzzle, rr, cc, Blank),
        removed |-> Append(st.removed, <<rr, cc, At(st.puzzle, rr, cc)>>)]
  ELSE st

\* The carving loop going round without its index moving on.
SamePass(k) == k

\* i++ of the carving loop (line 218)
NextPass(k) == k + 1

\* The partner taken to be the cell itself.
MirrorSame(k, n) == k

\* size - 1 - r and size - 1 - c  (lines 223-224)
Mirror(k, n) == n - 1 - k

\* The carving loop going back to a cell it has tried already.
NeverSettled(r, c, pr, pcl, pairDifferent) == FALSE

\* seen.has(key(r, c)) || (pairDifferent && seen.has(key(pr, pc)))  (line 228)
Settled(r, c, pr, pcl, pairDifferent) ==
  <<r, c>> \in seen \/ (pairDifferent /\ <<pr, pcl>> \in seen)

\* One pass of the carving loop up to the uniqueness test (lines 218-243).
CarveTry ==
  /\ pc = "carve"
  /\ i < Len(positions) /\ blanks < targetBlanks
  /\ LET r == positions[i + 1][1]
         c == positions[i + 1][2]
         pr == Mirror(r, size)
         pcl == Mirror(c, size)
         pairDifferent == (pr # r \/ pcl # c)
     IN IF At(puzzle, r, c) = Blank
        THEN /\ i' = NextPass(i)
             /\ UNCHANGED <<pc, ret, board, stack, count, limit, puzzle, removed>>
        ELSE IF Settled(r, c, pr, pcl, pairDifferent)
             THEN /\ i' = NextPass(i)
                  /\ UNCHANGED <<pc, ret, board, stack, count, limit, puzzle, removed>>
             ELSE LET t1 == tryRemove([puzzle |-> puzzle, removed |-> <<>>], r, c)
                      t2 == IF pairDifferent THEN tryRemove(t1, pr, pcl) ELSE t1
                  IN /\ puzzle' = t2.puzzle
                     /\ removed' = t2.removed
                     /\ board' = deepCopy(t2.puzzle)
                     /\ count' = 0
                     /\ limit' = 2
                     /\ stack' = <<>>
                     /\ pc' = "backtrack"
                     /\ ret' = "carveTest"
                     /\ i' = i
  /\ UNCHANGED <<rnd, solved, size, seedI, full, positions, blanks, targetBlanks, seen,
                 pageVars>>

\* The revert of the first cell alone.
RestoreFirst(pz, rem, k) ==
  IF rem = <<>> THEN pz ELSE Set(pz, rem[1][1], rem[1][2], rem[1][3])

\* The revert of line 247 left out.
RestoreNothing(pz, rem, k) == pz

\* for (const [rr, cc, val] of removed) puzzle[rr][cc] = val  (line 247)
RECURSIVE Restore(_, _, _)
Restore(pz, rem, k) ==
  IF k > Len(rem) THEN pz
  ELSE Restore(Set(pz, rem[k][1], rem[k][2], rem[k][3]), rem, k + 1)

\* The test of solCount with > for >=.
AmbiguousMore(solCount) == solCount > 2

\* solCount >= 2  (line 245)
Ambiguous(solCount) == solCount >= 2

\* The marking without the partner.
MarkedOwn(r, c, pr, pcl, pairDifferent) == {<<r, c>>}

\* seen.add(key(r, c)); if (pairDifferent) seen.add(key(pr, pc));  (lines
\* 248-249 and 254-255)
Marked(r, c, pr, pcl, pairDifferent) ==
  IF pairDifferent THEN {<<r, c>>, <<pr, pcl>>} ELSE {<<r, c>>}

\* An accepted removal counted as one cell.
BlankedOne(rem) == 1

\* removed.length of line 251
Blanked(rem) == Len(rem)

\* countSolutions has returned solCount = count: lines 245-257.
CarveDecide ==
  /\ pc = "carveTest"
  /\ LET r == positions[i + 1][1]
         c == positions[i + 1][2]
         pr == Mirror(r, size)
         pcl == Mirror(c, size)
         pairDifferent == (pr # r \/ pcl # c)
         marked == Marked(r, c, pr, pcl, pairDifferent)
     IN IF Ambiguous(count)
        THEN /\ puzzle' = Restore(puzzle, removed, 1)
             /\ seen' = seen \cup marked
             /\ blanks' = blanks
        ELSE /\ blanks' = blanks + Blanked(removed)
             /\ seen' = seen \cup marked
             /\ puzzle' = puzzle
  /\ i' = NextPass(i)
  /\ pc' = "carve"
  /\ UNCHANGED <<rnd, ret, board, stack, solved, count, limit, size, seedI, full,
                 positions, targetBlanks, removed, pageVars>>

\* The carving loop ends and generateUniquePuzzle returns puzzle (line 259);
\* startGame renders and saves it (lines 347-352).
CarveReturn ==
  /\ pc = "carve"
  /\ ~(i < Len(positions) /\ blanks < targetBlanks)
  /\ dom' = renderBoard(puzzle, size)
  /\ storage' = saveGameState(puzzle, size, solution, hintCount, currentSize)
  /\ pc' = "idle"
  /\ UNCHANGED <<rnd, ret, board, stack, solved, count, limit, size, genVars, solution,
                 hintCount, currentSize, difficulty, loaded, acts>>

(***************************************************************************)
(* The earlier generator: generateSudoku of src/js/2048.js (lines 1338-1385) *)
(***************************************************************************)

\* One pass of the seeding loop (lines 1361-1368): a random number goes to a
\* random cell, blank or not, when isValid accepts it there.
LegacySeed ==
  /\ pc = "legacySeed"
  /\ seedI < size
  /\ LET row == rngInt(size, rnd)
         s1 == RndNext(rnd)
         col == rngInt(size, s1)
         s2 == RndNext(s1)
         num == rngInt(size, s2) + 1
     IN /\ board' = IF isValid(board, row, col, num, size, boxRows, boxCols)
                     THEN Set(board, row, col, num)
                     ELSE board
        /\ rnd' = RndNext(s2)
  /\ seedI' = seedI + 1
  /\ UNCHANGED <<pc, ret, stack, solved, count, limit, size, full, puzzle, positions,
                 i, blanks, targetBlanks, seen, removed, pageVars>>

\* The seeding loop is over: solveBoard is called (line 1370).
LegacySeedDone ==
  /\ pc = "legacySeed"
  /\ seedI >= size
  /\ pc' = "legacySolve"
  /\ stack' = <<>>
  /\ UNCHANGED <<rnd, ret, board, solved, count, limit, size, genVars, pageVars>>

\* Entry of the earlier solveBoard (lines 1339-1342 and 1353): the numbers
\* are tried in the order 1..size.
LegacySolveEnter ==
  /\ pc = "legacySolve"
  /\ LET first == FirstBlank(board, size)
     IN IF first = size * size
        THEN /\ solved' = TRUE
             /\ stack' = <<>>
             /\ pc' = "legacySolved"
        ELSE /\ stack' = Append(stack, [row |-> first \div size, col |-> first % size,
                                        nums |-> OneToN(size), k |-> 1])
             /\ pc' = "legacyLoop"
             /\ solved' = solved
  /\ UNCHANGED <<rnd, ret, board, count, limit, size, genVars, pageVars>>

\* One pass of the loop over num (lines 1342-1348).
LegacySolveTry ==
  /\ pc = "legacyLoop"
  /\ Top(stack).k <= Len(Top(stack).nums)
  /\ LET f == Top(stack)
         num == f.nums[f.k]
     IN IF isValid(board, f.row, f.col, num, size, boxRows, boxCols)
        THEN /\ board' = Set(board, f.row, f.col, num)
             /\ pc' = "legacySolve"
             /\ stack' = stack
        ELSE /\ stack' = [stack EXCEPT ![Len(stack)].k = f.k + 1]
             /\ UNCHANGED <<board, pc>>
  /\ UNCHANGED <<rnd, ret, solved, count, limit, size, genVars, pageVars>>

\* The loop over num is exhausted: return false (line 1349); a calling
\* solveBoard blanks its cell and goes on (lines 1346, 1342).
LegacySolveFail ==
  /\ pc = "legacyLoop"
  /\ Top(stack).k > Len(Top(stack).nums)
  /\ IF Len(stack) = 1
     THEN /\ solved' = FALSE
          /\ stack' = <<>>
          /\ pc' = "legacySolved"
          /\ board' = board
     ELSE LET g == stack[Len(stack) - 1]
          IN /\ board' = Set(board, g.row, g.col, Blank)
             /\ stack' = [Pop(stack) EXCEPT ![Len(stack) - 1].k = g.k + 1]
             /\ UNCHANGED <<solved, pc>>
  /\ UNCHANGED <<rnd, ret, count, limit, size, genVars, pageVars>>

\* solveBoard has returned and its result is not read: solution and puzzle
\* are copies of the board as it is (lines 1370-1375).  The code's blanks is
\* targetBlanks here and its removed, a counter, is blanks.
LegacySolved ==
  /\ pc = "legacySolved"
  /\ solution' = deepCopy(board)
  /\ puzzle' = deepCopy(board)
  /\ targetBlanks' = TargetBlanks(size)
  /\ blanks' = 0
  /\ pc' = "legacyCarve"
  /\ UNCHANGED <<rnd, ret, board, stack, solved, count, limit, size, seedI, full,
                 positions, i, seen, removed, hintCount, currentSize, difficulty, dom,
                 storage, loaded, acts>>

\* One pass of while (removed < blanks) (lines 1376-1383).
LegacyRemove ==
  /\ pc = "legacyCarve"
  /\ blanks < targetBlanks
  /\ LET r == rngInt(size, rnd)
         s1 == RndNext(rnd)
         c == rngInt(size, s1)
     IN /\ IF At(puzzle, r, c) # Blank
           THEN /\ puzzle' = Set(puzzle, r, c, Blank)
                /\ blanks' = blanks + 1
           ELSE UNCHANGED <<puzzle, blanks>>
        /\ rnd' = RndNext(s1)
  /\ UNCHANGED <<pc, ret, board, stack, solved, count, limit, size, seedI, full,
                 positions, i, targetBlanks, seen, removed, pageVars>>

\* The loop ends and generateSudoku returns puzzle (line 1384).
LegacyReturn ==
  /\ pc = "legacyCarve"
  /\ blanks >= targetBlanks
  /\ pc' = "legacyDone"
  /\ UNCHANGED <<rnd, ret, board, stack, solved, count, limit, size, genVars, pageVars>>

(***************************************************************************)
(* Game loop and save/load (lines 321-452)                                 *)
(***************************************************************************)

\* Number of things the player does in one run of the model: reloading the
\* page, pressing a button, typing a value.
MaxActions == 3

\* getCurrentPuzzle(): the values of the .cell inputs (lines 321-330).
getCurrentPuzzle ==
  [r \in 1 .. currentSize |-> [c \in 1 .. currentSize |-> dom.value[<<r - 1, c - 1>>]]]

\* The inputs the player can type into, in document order.
Editable == {p \in Cells(dom.n) : ~dom.readOnly[p]}

RowMajor(p, n) == p[1] * n + p[2]

\* The page is loaded again: the script starts afresh, localStorage stays.
Reload ==
  /\ pc = "idle"
  /\ acts < MaxActions
  /\ acts' = acts + 1
  /\ pc' = "unloaded"
  /\ ret' = "none"
  /\ board' = NoGrid
  /\ stack' = <<>>
  /\ solved' = FALSE
  /\ count' = 0
  /\ limit' = 2
  /\ seedI' = 0
  /\ full' = NoGrid
  /\ puzzle' = NoGrid
  /\ positions' = <<>>
  /\ i' = 0
  /\ blanks' = 0
  /\ targetBlanks' = 0
  /\ seen' = {}
  /\ removed' = <<>>
  /\ solution' = NoGrid
  /\ hintCount' = 3
  /\ currentSize' = 9
  /\ dom' = NoDom
  /\ loaded' = "none"
  /\ UNCHANGED <<rnd, size, difficulty, storage>>

\* DOMContentLoaded (lines 436-452) and loadSavedGame up to the call of
\* countSolutions (lines 402-415); when loadSavedGame returns false,
\* startGame is called.
PageLoad ==
  /\ pc = "unloaded"
  /\ IF storage = NoSave \/ storage.n \notin {4, 6, 9}
     THEN /\ pc' = "startGame"
          /\ loaded' = "rejected"
          /\ UNCHANGED <<ret, board, stack, count, limit, size>>
     ELSE /\ size' = storage.n
          /\ board' = storage.puzzle
          /\ count' = 0
          /\ limit' = 2
          /\ stack' = <<>>
          /\ pc' = "backtrack"
          /\ ret' = "loadTest"
          /\ loaded' = loaded
  /\ UNCHANGED <<rnd, solved, genVars, solution, hintCount, currentSize, difficulty,
                 dom, storage, acts>>

\* countSolutions has returned solCount = count: lines 417-432.
LoadDecide ==
  /\ pc = "loadTest"
  /\ IF count >= 2
     THEN /\ pc' = "startGame"
          /\ loaded' = "rejected"
          /\ UNCHANGED <<solution, hintCount, currentSize, difficulty, dom>>
     ELSE /\ solution' = storage.solution
          /\ hintCount' = storage.hintCount
          /\ currentSize' = (IF storage.difficulty # 0 THEN storage.difficulty ELSE size)
          /\ difficulty' = currentSize'
          /\ dom' = renderBoard(storage.puzzle, storage.n)
          /\ loaded' = "restored"
          /\ pc' = "idle"
  /\ UNCHANGED <<rnd, ret, board, stack, solved, count, limit, size, genVars, storage, acts>>

\* newGame (lines 333-339): the saved game is removed, then startGame.
NewGame ==
  /\ pc = "idle"
  /\ acts < MaxActions
  /\ acts' = acts + 1
  /\ storage' = NoSave
  /\ pc' = "startGame"
  /\ UNCHANGED <<rnd, ret, board, stack, solved, count, limit, size, genVars, solution,
                 hintCount, currentSize, difficulty, dom, loaded>>

\* The player types a value into the first input that is not read-only, or
\* clears it.
PlayerEdit ==
  /\ pc = "idle"
  /\ acts < MaxActions
  /\ Editable # {}
  /\ LET p == CHOOSE q \in Editable :
                \A x \in Editable : RowMajor(q, dom.n) <= RowMajor(x, dom.n)
     IN \E v \in 0 .. dom.n :
          /\ v # dom.value[p]
          /\ dom' = [dom EXCEPT !.value[p] = v]
  /\ acts' = acts + 1
  /\ UNCHANGED <<searchVars, genVars, solution, hintCount, currentSize, difficulty,
                 storage, loaded>>

\* giveHint with hints left and a blank input (lines 356-377).
GiveHint ==
  /\ pc = "idle"
  /\ acts < MaxActions
  /\ acts' = acts + 1
  /\ hintCount # 0
  /\ LET blankCells == {p \in Editable : dom.value[p] = Blank}
     IN /\ blankCells # {}
        /\ LET k == rngInt(Cardinality(blankCells), rnd)
               cell == CHOOSE p \in blankCells :
                         Cardinality({q \in blankCells :
                                        RowMajor(q, dom.n) < RowMajor(p, dom.n)}) = k
           IN /\ dom' = [dom EXCEPT !.value[cell] = At(solution, cell[1], cell[2])]
              /\ hintCount' = hintCount - 1
              /\ storage' = saveGameState([r \in 1 .. currentSize |->
                                            [c \in 1 .. currentSize |->
                                               dom'.value[<<r - 1, c - 1>>]]],
                                          currentSize, solution, hintCount', currentSize)
  /\ rnd' = RndNext(rnd)
  /\ UNCHANGED <<pc, ret, board, stack, solved, count, limit, size, genVars, solution,
                 currentSize, difficulty, loaded>>

\* checkBoard (lines 379-398): the colouring is not modelled, the save is.
CheckBoard ==
  /\ pc = "idle"
  /\ acts < MaxActions
  /\ acts' = acts + 1
  /\ storage' = saveGameState(getCurrentPuzzle, currentSize, solution, hintCount,
                              currentSize)
  /\ UNCHANGED <<searchVars, genVars, solution, hintCount, currentSize, difficulty, dom,
                 loaded>>

(***************************************************************************)
(* What the rules of the puzzle say, stated without the searches           *)
(***************************************************************************)

\* The value of g at the cell p = <<row, col>>.
Val(g, p) == g[p[1] + 1][p[2] + 1]

\* Two different cells share a row, a column or a box.
Related(p, q, br, bc) ==
  /\ p # q
  /\ \/ p[1] = q[1]
     \/ p[2] = q[2]
     \/ (p[1] \div br = q[1] \div br /\ p[2] \div bc = q[2] \div bc)

\* No value occurs twice in a row, a column or a box of g.
NoDuplicate(g, n, br, bc) ==
  \A p \in Cells(n) : \A q \in Cells(n) :
    (Related(p, q, br, bc) /\ Val(g, p) # Blank) => Val(g, p) # Val(g, q)

\* Every row, column and box of g holds each of 1..n exactly once.
Legal(g, n, br, bc) ==
  /\ \A p \in Cells(n) : Val(g, p) \in 1 .. n
  /\ \A v \in 1 .. n :
       /\ \A r \in Idx(n) : Cardinality({c \in Idx(n) : At(g, r, c) = v}) = 1
       /\ \A c \in Idx(n) : Cardinality({r \in Idx(n) : At(g, r, c) = v}) = 1
       /\ \A a \in 0 .. (n \div br) - 1 : \A b \in 0 .. (n \div bc) - 1 :
            Cardinality({p \in Cells(n) : /\ p[1] \div br = a
                                          /\ p[2] \div bc = b
                                          /\ Val(g, p) = v}) = 1

\* g keeps every filled cell of h.
Extends(g, h, n) == \A p \in Cells(n) : Val(h, p) # Blank => Val(g, p) = Val(h, p)

\* The values a blank cell p of g can take without a duplicate.
Free(g, p, n, br, bc) ==
  {v \in 1 .. n : \A q \in Cells(n) : Related(p, q, br, bc) => Val(g, q) # v}

\* g with v at cell p.
Put(g, p, v) == Set(g, p[1], p[2], v)

Open(g, n) == {p \in Cells(n) : Val(g, p) = Blank}

\* A blank cell among open with the fewest free values.
Tightest(g, open, n, br, bc) ==
  LET free == [x \in open |-> Cardinality(Free(g, x, n, br, bc))]
      least == CHOOSE m \in {free[x] : x \in open} : \A y \in open : free[y] >= m
  IN CHOOSE x \in open : free[x] = least

\* Every complete grid without a duplicate that keeps the filled cells of g,
\* for a g without a duplicate.
RECURSIVE Extend(_, _, _, _)
Extend(g, n, br, bc) ==
  LET open == Open(g, n)
  IN IF open = {} THEN {g}
     ELSE LET cell == Tightest(g, open, n, br, bc)
          IN UNION {Extend(Put(g, cell, v), n, br, bc) : v \in Free(g, cell, n, br, bc)}

\* The completions of g: the legal grids that keep its filled cells.
Completions(g, n, br, bc) ==
  IF NoDuplicate(g, n, br, bc) /\ (\A p \in Cells(n) : Val(g, p) \in 0 .. n)
  THEN Extend(g, n, br, bc)
  ELSE {}

Min(a, b) == IF a <= b THEN a ELSE b

(***************************************************************************)
(* Specifications                                                          *)
(***************************************************************************)

\* Seeds of Math.random explored for a request of each size.
MaxSeed4 == 40

MaxSeed6 == 4

MaxSeed9 == 0

\* Seeds explored for a request of a size the page does not offer.
MaxSeedOther == 6

\* A size outside 4, 6, 9 asked of generateUniquePuzzle.
OtherSizes == {3}

GenRequests ==
  ({4} \X (0 .. MaxSeed4)) \cup ({6} \X (0 .. MaxSeed6)) \cup ({9} \X (0 .. MaxSeed9))
    \cup (OtherSizes \X (0 .. MaxSeedOther))

\* The state of a freshly loaded page with the script at position at.
Fresh(d, s, save, at) ==
  /\ rnd = s
  /\ pc = at
  /\ stack = <<>>
  /\ solved = FALSE
  /\ count = 0
  /\ limit = 2
  /\ size = d
  /\ seedI = 0
  /\ full = NoGrid
  /\ puzzle = NoGrid
  /\ positions = <<>>
  /\ i = 0
  /\ blanks = 0
  /\ targetBlanks = 0
  /\ seen = {}
  /\ removed = <<>>
  /\ solution = NoGrid
  /\ hintCount = 3
  /\ currentSize = 9
  /\ difficulty = d
  /\ dom = NoDom
  /\ storage = save
  /\ loaded = "none"
  /\ acts = 0

\* generateUniquePuzzle(size) as called by startGame, for each request.
InitGen ==
  \E q \in GenRequests :
    /\ Fresh(q[1], SeedState(q[2]), NoSave, "startGame")
    /\ board = NoGrid
    /\ ret = "none"

\* The steps of the script: a handler, once started, runs to its end.
Script ==
  \/ StartGame
  \/ SeedStep
  \/ SeedSolve
  \/ SolveBoardEnter
  \/ SolveBoardTry
  \/ SolveBoardFail
  \/ SeedSolved
  \/ FallbackSolved
  \/ CarveTry
  \/ BacktrackEnter
  \/ BacktrackLoop
  \/ CarveDecide
  \/ CarveReturn
  \/ PageLoad
  \/ LoadDecide

NextGen ==
  \/ Script
  \/ Reload

SpecGen == InitGen /\ [][NextGen]_vars

\* The same with the script never left standing in the middle of a handler.
SpecGenFair == SpecGen /\ WF_vars(Script)

\* A game saved by the earlier version of the page (generateSudoku of
\* src/js/2048.js, lines 1356-1385): a solved grid with floor(16 * 0.6) = 9
\* cells blanked at random, here all its 3s and 4s and one 2.
LegacySolution == <<<<1, 2, 3, 4>>, <<3, 4, 1, 2>>, <<2, 1, 4, 3>>, <<4, 3, 2, 1>>>>

LegacyPuzzle == <<<<1, 2, 0, 0>>, <<0, 0, 1, 2>>, <<2, 1, 0, 0>>, <<0, 0, 0, 1>>>>

LegacySave == saveGameState(LegacyPuzzle, 4, LegacySolution, 3, 4)

\* Seeds of Math.random explored for a visit of the page.
MaxSeedPage == 0

\* The page is opened with the control at 4x4 and with no saved game or with
\* a saved game of the earlier version.
Init ==
  \E k \in 0 .. MaxSeedPage : \E save \in {NoSave, LegacySave} :
    /\ Fresh(4, SeedState(k), save, "unloaded")
    /\ board = NoGrid
    /\ ret = "none"

Next ==
  \/ NextGen
  \/ NewGame
  \/ PlayerEdit
  \/ GiveHint
  \/ CheckBoard

Spec == Init /\ [][Next]_vars

\* solveBoard called on an all-blank grid, for each request.
InitFill ==
  \E q \in GenRequests :
    /\ Fresh(q[1], SeedState(q[2]), NoSave, "solveBoard")
    /\ board = EmptyBoard(q[1])
    /\ ret = "returned"

NextFill ==
  \/ SolveBoardEnter
  \/ SolveBoardTry
  \/ SolveBoardFail

SpecFill == InitFill /\ [][NextFill]_vars

\* Largest limit passed to countSolutions.
MaxLimit == 3

\* Seeds of Math.random explored for the grids handed to countSolutions.
MaxSeedCount4 == 5

MaxSeedCount6 == 1

\* Largest number of cells blanked in a 4x4 and in a 6x6 input grid.
MaxBlank4 == 12

MaxBlank6 == 14

\* A solved 6x6 grid with boxes of 2 rows and 3 columns.
Solved6 ==
  << <<1, 2, 3, 4, 5, 6>>, <<4, 5, 6, 1, 2, 3>>, <<2, 3, 1, 5, 6, 4>>,
     <<5, 6, 4, 2, 3, 1>>, <<3, 1, 2, 6, 4, 5>>, <<6, 4, 5, 3, 1, 2>> >>

RECURSIVE BlankFirst(_, _, _)
\* g with the first m cells of the sequence pos blanked.
BlankFirst(g, pos, m) ==
  IF m = 0 THEN g
  ELSE Set(BlankFirst(g, pos, m - 1), pos[m][1], pos[m][2], Blank)

\* The grids handed to countSolutions with the state of Math.random at the
\* call: a solved grid with m cells blanked, and the same with the value v
\* written over one of the cells left.  They are grids without a duplicate
\* and grids with one, grids with no, one and many completions, and full
\* grids, legal or not.
CountInputs(base, n, maxSeed, maxBlank) ==
  UNION {LET sh == shuffle(AllPositions(n), SeedState(k))
         IN UNION {LET g == BlankFirst(base, sh.arr, m)
                       p == sh.arr[m + 1]
                   IN {[grid |-> Set(g, p[1], p[2], v), n |-> n, rnd |-> sh.rnd] :
                         v \in 1 .. n} :
                   m \in 0 .. maxBlank} :
         k \in 0 .. maxSeed}

\* countSolutions(board, size, boxRows, boxCols, limit) called on each of
\* these grids with each limit; puzzle keeps the grid as it was handed over.
InitCount ==
  \E inp \in CountInputs(LegacySolution, 4, MaxSeedCount4, MaxBlank4)
              \cup CountInputs(Solved6, 6, MaxSeedCount6, MaxBlank6) :
    \E lim \in 0 .. MaxLimit :
      /\ rnd = inp.rnd
      /\ pc = "backtrack"
      /\ ret = "returned"
      /\ board = inp.grid
      /\ stack = <<>>
      /\ solved = FALSE
      /\ count = 0
      /\ limit = lim
      /\ size = inp.n
      /\ seedI = 0
      /\ full = NoGrid
      /\ puzzle = inp.grid
      /\ positions = <<>>
      /\ i = 0
      /\ blanks = 0
      /\ targetBlanks = 0
      /\ seen = {}
      /\ removed = <<>>
      /\ solution = NoGrid
      /\ hintCount = 3
      /\ currentSize = 9
      /\ difficulty = inp.n
      /\ dom = NoDom
      /\ storage = NoSave
      /\ loaded = "none"
      /\ acts = 0

NextCount ==
  \/ BacktrackEnter
  \/ BacktrackLoop

SpecCount == InitCount /\ [][NextCount]_vars

\* countSolutions(grid, n, n's box rows, n's box columns, lim) is called with
\* Math.random in state s; puzzle keeps the grid as it was handed over.
CountCall(grid, n, lim, s) ==
  /\ rnd = s
  /\ pc = "backtrack"
  /\ ret = "returned"
  /\ board = grid
  /\ stack = <<>>
  /\ solved = FALSE
  /\ count = 0
  /\ limit = lim
  /\ size = n
  /\ seedI = 0
  /\ full = NoGrid
  /\ puzzle = grid
  /\ positions = <<>>
  /\ i = 0
  /\ blanks = 0
  /\ targetBlanks = 0
  /\ seen = {}
  /\ removed = <<>>
  /\ solution = NoGrid
  /\ hintCount = 3
  /\ currentSize = 9
  /\ difficulty = n
  /\ dom = NoDom
  /\ storage = NoSave
  /\ loaded = "none"
  /\ acts = 0

\* Seeds of Math.random explored for the 4x4 grids of two clues.
MaxSeedTwo == 0

\* Every 4x4 grid with exactly two filled cells, conflicting or not.
TwoClueGrids ==
  {Set(Set(EmptyBoard(4), p[1], p[2], v), q[1], q[2], w) :
     <<p, q>> \in {x \in Cells(4) \X Cells(4) : RowMajor(x[1], 4) < RowMajor(x[2], 4)},
     v \in 1 .. 4, w \in 1 .. 4}

\* countSolutions(grid, 4, 2, 2, 2) called on each of them.
InitTwoClues ==
  \E g \in TwoClueGrids : \E k \in 0 .. MaxSeedTwo : CountCall(g, 4, 2, SeedState(k))

SpecTwoClues == InitTwoClues /\ [][NextCount]_vars

\* Seeds of Math.random with which each grid is handed to countSolutions.
MaxSeedShuffle == 2

\* countSolutions called on each grid of CountInputs with each limit, once
\* for every seed: runs of one grid and one limit differ only in what the
\* shuffles of the candidates give.
InitShuffles ==
  \E inp \in CountInputs(LegacySolution, 4, MaxSeedCount4, MaxBlank4)
              \cup CountInputs(Solved6, 6, MaxSeedCount6, MaxBlank6) :
    \E lim \in 0 .. MaxLimit : \E k \in 0 .. MaxSeedShuffle :
      CountCall(inp.grid, inp.n, lim, SeedState(k))

SpecShuffles == InitShuffles /\ [][NextCount]_vars

\* solveBoard(grid, n, n's box rows, n's box columns) is called with
\* Math.random in state s; puzzle keeps the grid as it was handed over.
SolveCall(grid, n, s) ==
  /\ rnd = s
  /\ pc = "solveBoard"
  /\ ret = "returned"
  /\ board = grid
  /\ stack = <<>>
  /\ solved = FALSE
  /\ count = 0
  /\ limit = 2
  /\ size = n
  /\ seedI = 0
  /\ full = NoGrid
  /\ puzzle = grid
  /\ positions = <<>>
  /\ i = 0
  /\ blanks = 0
  /\ targetBlanks = 0
  /\ seen = {}
  /\ removed = <<>>
  /\ solution = NoGrid
  /\ hintCount = 3
  /\ currentSize = 9
  /\ difficulty = n
  /\ dom = NoDom
  /\ storage = NoSave
  /\ loaded = "none"
  /\ acts = 0

\* solveBoard called on a solved 4x4 and a solved 6x6 grid with cells
\* blanked and one cell overwritten: grids with and without a duplicate, with
\* and without a completion.
InitSolve ==
  \E inp \in CountInputs(LegacySolution, 4, MaxSeedCount4, MaxBlank4)
              \cup CountInputs(Solved6, 6, MaxSeedCount6, MaxBlank6) :
    SolveCall(inp.grid, inp.n, inp.rnd)

SpecSolve == InitSolve /\ [][NextFill]_vars

\* Either search called on each of these grids: countSolutions with each
\* limit, or solveBoard.
InitSearches == InitCount \/ InitSolve

NextSearches ==
  \/ NextCount
  \/ NextFill

SpecSearches == InitSearches /\ [][NextSearches]_vars

\* Seeds of Math.random explored for generateSudoku of a 4x4 and a 6x6 grid.
MaxSeedLegacy4 == 45

MaxSeedLegacy6 == 2

\* generateSudoku(size) of the earlier version is called (line 1357).
InitLegacy ==
  \E q \in ({4} \X (0 .. MaxSeedLegacy4)) \cup ({6} \X (0 .. MaxSeedLegacy6)) :
    /\ Fresh(q[1], SeedState(q[2]), NoSave, "legacySeed")
    /\ board = EmptyBoard(q[1])
    /\ ret = "none"

NextLegacy ==
  \/ LegacySeed
  \/ LegacySeedDone
  \/ LegacySolveEnter
  \/ LegacySolveTry
  \/ LegacySolveFail
  \/ LegacySolved
  \/ LegacyRemove
  \/ LegacyReturn

SpecLegacy == InitLegacy /\ [][NextLegacy]_vars

(***************************************************************************)
(* Properties                                                              *)
(***************************************************************************)

\* generateUniquePuzzle has returned and startGame has put its grid on the
\* page.
Generated == pc = "idle" /\ puzzle # NoGrid

\* The number of completions of the grid handed to countSolutions.
K == Cardinality(Completions(puzzle, size, boxRows, boxCols))

Consistent == NoDuplicate(puzzle, size, boxRows, boxCols)

\* C1: for N in {4, 6, 9} and every seed of Math.random, countSolutions with
\* limit 2 returns 1 on the clue grid generateUniquePuzzle returned.  The
\* call is the one loadSavedGame makes on the grid startGame saved, when the
\* page is loaded again.
C1_CluesCountOne ==
  (pc = "loadTest" /\ size \in ValidSizes) => (limit = 2 /\ count = 1)

C1_Counted6 ==
  /\ pc = "loadTest"
  /\ size = 6
  /\ board = storage.puzzle
  /\ Cardinality(Open(board, 6)) > 15
  /\ count = 1

\* C2: when generateUniquePuzzle has returned, every clue of the puzzle is
\* the value of solution at its cell, and solution is the one and only
\* complete grid without a duplicate in a row, column or box that keeps the
\* clues.
C2_SolutionIsTheOnlyCompletion ==
  (Generated /\ size \in ValidSizes) =>
    /\ \A p \in Cells(size) : Val(puzzle, p) # Blank => Val(puzzle, p) = Val(solution, p)
    /\ Completions(puzzle, size, boxRows, boxCols) = {solution}

C2_Generated6 ==
  /\ Generated
  /\ size = 6
  /\ blanks > 15
  /\ Extends(solution, puzzle, 6)
  /\ Legal(solution, 6, 2, 3)

\* C3: for N in {4, 6, 9} and every seed, solveBoard called on the all-blank
\* N x N grid returns true and leaves a grid whose every row, column and box
\* holds each of 1..N exactly once.
C3_FillSucceeds ==
  (pc = "returned" /\ size \in ValidSizes) =>
    (solved /\ Legal(board, size, boxRows, boxCols))

C3_Filled9 == pc = "returned" /\ size = 9 /\ solved /\ Legal(board, 9, 3, 3)

\* C4: for a grid whose filled cells hold no duplicate in a row, column or
\* box, countSolutions returns the smaller of limit and the number K of its
\* completions.
C4_CountIsMinLimitK ==
  (pc = "returned" /\ Consistent) => count = Min(limit, K)

C4_MoreThanLimit == pc = "returned" /\ Consistent /\ limit = 2 /\ count = 2 /\ K > 2

\* C5: for a grid without a blank cell, countSolutions with limit 2 returns
\* 1 when the grid is legal and 0 when it is not.
C5_FullGridCount ==
  (pc = "returned" /\ Open(puzzle, size) = {} /\ limit = 2) =>
    count = (IF Legal(puzzle, size, boxRows, boxCols) THEN 1 ELSE 0)

\* C6: for every grid, with or without a duplicate, and every limit >= 0,
\* count stays within 0 .. limit all through countSolutions, so the value
\* returned is in that range.
C6_CountWithinLimit == count \in 0 .. limit

C6_LimitReached ==
  pc = "returned" /\ ~Consistent /\ limit = MaxLimit /\ count = limit

\* C7: when loadSavedGame has restored a saved game, the saved grid it
\* counted has exactly one completion.
C7_RestoredOnlyIfUnique ==
  (pc = "idle" /\ ret = "loadTest" /\ loaded = "restored") =>
    Cardinality(Completions(board, size, boxRows, boxCols)) = 1

\* C8: for N in {4, 6, 9} the grid generateSolvedGrid hands to the carving
\* loop is complete and legal, and the solveBoard call of the fallback
\* returns true.
C8_SolvedGridLegal ==
  size \in ValidSizes =>
    /\ pc = "fallbackSolved" => solved
    /\ pc = "carve" => Legal(full, size, boxRows, boxCols)

C8_FallbackTaken ==
  /\ pc = "carve"
  /\ ret = "fallbackSolved"
  /\ size \in ValidSizes
  /\ Legal(full, size, boxRows, boxCols)

\* C9: with a size outside {4, 6, 9} generateUniquePuzzle builds no grid and
\* runs no search.
C9_OtherSizeRejected ==
  size \notin ValidSizes =>
    /\ board = NoGrid
    /\ puzzle = NoGrid
    /\ pc \notin {"solveBoard", "solveLoop", "backtrack", "countLoop"}

\* C10: for N in {4, 6, 9} and every seed, the carving loop makes at most
\* N * N passes, the puzzle returned counts one solution, and the script never
\* stays inside generateUniquePuzzle or inside a call of countSolutions: it
\* is back between two handlers again and again.
C10_GenerationTerminates ==
  /\ [](size \in ValidSizes => i <= size * size)
  /\ [](pc = "loadTest" => count = 1)
  /\ []<>(pc = "idle")

C10_Returned9 == Generated /\ size = 9 /\ i > 20 /\ blanks > 40

\* The searches are at work on board, a grid of size rows.
Searching ==
  /\ pc \in {"seed", "solveBoard", "solveLoop", "backtrack", "countLoop"}
  /\ Len(board) = size

\* The values in the row of a cell, in its column, and in the box with
\* origin (row - row % boxRows, col - col % boxCols).
InRow(g, row) == {At(g, row, c) : c \in Idx(size)}

InCol(g, col) == {At(g, r, col) : r \in Idx(size)}

InBox(g, row, col) ==
  LET top == row - (row % boxRows)
      left == col - (col % boxCols)
  IN {At(g, r, c) : r \in top .. top + boxRows - 1, c \in left .. left + boxCols - 1}

\* C11: in every grid the seeding, the fill, the counting search and the
\* carving tests work on, isValid accepts a number at a blank cell exactly
\* when the number is nowhere in the row, the column and the box of the cell.
C11_IsValidIffAbsent ==
  Searching =>
    \A p \in Open(board, size) :
      LET used == InRow(board, p[1]) \cup InCol(board, p[2]) \cup InBox(board, p[1], p[2])
      IN \A num \in 1 .. size :
           isValid(board, p[1], p[2], num, size, boxRows, boxCols) <=> num \notin used

\* A carving test of a 6x6 puzzle where isValid turns a number down at a
\* blank cell for the box alone, and accepts another.
C11_BoxAlone6 ==
  /\ pc = "countLoop"
  /\ ret = "carveTest"
  /\ size = 6
  /\ \E p \in Open(board, 6) : \E num \in 1 .. 6 : \E other \in 1 .. 6 :
       /\ ~isValid(board, p[1], p[2], num, 6, 2, 3)
       /\ num \notin InRow(board, p[1]) \cup InCol(board, p[2])
       /\ num \in InBox(board, p[1], p[2])
       /\ isValid(board, p[1], p[2], other, 6, 2, 3)

\* The cells the carving loop has blanked, put back and marked: the cells of
\* seen that hold a value.
Kept == {p \in seen : Val(puzzle, p) # Blank}

\* C12: a cell the carving loop has put back and added to seen keeps its value
\* and its mark in every later step of the same run of generateUniquePuzzle,
\* the tentative removals included, and holds a value in the puzzle that is
\* returned and saved.
C12_KeptStaysClue ==
  [][(puzzle # NoGrid /\ puzzle' # NoGrid) =>
       \A p \in Kept :
         /\ Val(puzzle', p) = Val(puzzle, p)
         /\ p \in seen'
         /\ (pc = "carve" /\ pc' = "idle") => Val(storage'.puzzle, p) # Blank]_vars

\* The carving loop of a 9x9 puzzle comes to a cell it has put back before.
C12_BackAtKept9 ==
  /\ pc = "carve"
  /\ size = 9
  /\ i < Len(positions)
  /\ positions[i + 1] \in Kept

\* C13: on every 4x4 grid with exactly two filled cells that do not hold the
\* same value in one row, column or box, countSolutions with limit 2 returns 2.
C13_TwoCluesCountTwo ==
  (pc = "returned" /\ Consistent) => count = 2

\* The call has returned 2 for two different clues in one box.
C13_TwoInOneBox ==
  /\ pc = "returned"
  /\ Val(puzzle, <<0, 1>>) = 3
  /\ Val(puzzle, <<1, 0>>) = 4
  /\ Cardinality(Open(puzzle, 4)) = 14
  /\ count = 2

\* C14: from solution = deepCopy(full) until generateUniquePuzzle returns,
\* and until the page is loaded again, solution is the grid generateSolvedGrid
\* returned: it is a copy of that grid when it is made, and no step of the
\* carving loop, no tentative removal, no revert and no step of the counting
\* search on the test copy changes a cell of it.
C14_SolutionUntouched ==
  /\ [](full # NoGrid => solution = full)
  /\ [][/\ (full = NoGrid /\ full' # NoGrid) => (full' = board /\ solution' = board)
        /\ (full # NoGrid /\ full' # NoGrid) => (solution' = solution /\ full' = full)]_vars

\* A 9x9 puzzle is returned: the carving has blanked cells of puzzle and of
\* the test copy, and solution is still the full grid.
C14_Carved9 ==
  /\ Generated
  /\ size = 9
  /\ solution = full
  /\ Cardinality(Open(puzzle, 9)) > 40
  /\ Open(board, 9) # {}
  /\ Open(solution, 9) = {}

\* C15: getBoxDims gives boxes of 2 rows and 2 columns for N = 4, of 2 and 3
\* for N = 6, of 3 and 3 for N = 9; for each of them the division is exact and
\* boxRows * boxCols = N.
C15_BoxDims ==
  size \in ValidSizes =>
    /\ getBoxDims(size) = (CASE size = 4 -> [boxRows |-> 2, boxCols |-> 2]
                             [] size = 6 -> [boxRows |-> 2, boxCols |-> 3]
                             [] size = 9 -> [boxRows |-> 3, boxCols |-> 3])
    /\ size % getBoxDims(size).boxRows = 0
    /\ getBoxDims(size).boxRows * getBoxDims(size).boxCols = size

\* The counting search of a 6x6 puzzle at work with boxes of 2 rows and 3
\* columns.
C15_Boxes6 ==
  /\ pc = "backtrack"
  /\ size = 6
  /\ stack # <<>>
  /\ boxRows = 2
  /\ boxCols = 3

\* An invocation of backtrack has just chosen its cell and is about to write
\* the first of the cell's candidates.
Branched ==
  /\ pc = "countLoop"
  /\ stack # <<>>
  /\ Top(stack).i = 1
  /\ At(board, Top(stack).r, Top(stack).c) = Blank

\* The cell chosen by the invocation at the top of the stack.
Chosen == <<Top(stack).r, Top(stack).c>>

\* The numbers a blank cell p of the board can take: those outside its row,
\* column and box.
Candidates(p) ==
  (1 .. size) \ (InRow(board, p[1]) \cup InCol(board, p[2]) \cup InBox(board, p[1], p[2]))

\* The blank cells of the board before the cell p in row-major order.
Before(p) == {q \in Open(board, size) : RowMajor(q, size) < RowMajor(p, size)}

\* The blank cells of the board without a candidate.
Dead == {q \in Open(board, size) : Candidates(q) = {}}

FirstDead == CHOOSE d \in Dead : \A q \in Dead : RowMajor(d, size) <= RowMajor(q, size)

\* The blank cells with exactly one candidate before the first blank cell
\* without one.
OnesBeforeDead == {q \in Before(FirstDead) : Cardinality(Candidates(q)) = 1}

C18_NothingPlacedAtLimit ==
  [][(pc \in {"backtrack", "countLoop"} /\ count >= limit) =>
       /\ count' = count
       /\ pc' # "backtrack"
       /\ Len(stack') <= Len(stack)
       /\ \A q \in Cells(size) : Val(board', q) \in {Val(board, q), Blank}]_vars

\* count has reached a limit of 2 or more inside a loop, two calls deep or
\* more, that has candidates left.
C18_CandidatesLeft ==
  /\ pc = "countLoop"
  /\ limit >= 2
  /\ count = limit
  /\ Len(stack) >= 2
  /\ Top(stack).i <= Len(Top(stack).opts)

\* C19: on a grid without a duplicate in a row, column or box, solveBoard
\* returns true exactly when the grid has a completion; when it returns true
\* the grid is full and legal and keeps every value it was handed.
C19_SolveIffCompletion ==
  (pc = "returned" /\ Consistent) =>
    /\ solved <=> Completions(puzzle, size, boxRows, boxCols) # {}
    /\ solved => /\ Open(board, size) = {}
                 /\ Legal(board, size, boxRows, boxCols)
                 /\ Extends(board, puzzle, size)

\* solveBoard has returned false on a 6x6 grid without a duplicate and
\* without a completion.
C19_NoCompletion6 ==
  /\ pc = "returned"
  /\ size = 6
  /\ Consistent
  /\ ~solved
  /\ Cardinality(Open(puzzle, 6)) >= 6
  /\ Completions(puzzle, 6, 2, 3) = {}

\* C20: every value solveBoard writes goes to the first blank cell of the
\* board in row-major order and is a number isValid accepts there at that
\* moment; and when the grid handed over has no duplicate in a row, column or
\* box, no board of the fill has one.
C20_WritesFirstBlankLegally ==
  /\ [](Consistent => NoDuplicate(board, size, boxRows, boxCols))
  /\ [][\A q \in Cells(size) :
          (Val(board', q) # Val(board, q) /\ Val(board', q) # Blank) =>
            /\ Val(board, q) = Blank
            /\ Before(q) = {}
            /\ isValid(board, q[1], q[2], Val(board', q), size, boxRows, boxCols)
            /\ \A x \in Cells(size) \ {q} : Val(board', x) = Val(board, x)]_vars

\* solveBoard has written a number to a cell of a 6x6 grid without a
\* duplicate after it took a number back from that cell.
C20_WrittenAgain6 ==
  /\ pc = "solveBoard"
  /\ size = 6
  /\ Consistent
  /\ Len(stack) >= 3
  /\ Top(stack).k > 1
  /\ Val(board, <<Top(stack).row, Top(stack).col>>) = Top(stack).nums[Top(stack).k]
  /\ Open(board, 6) # {}
  /\ NoDuplicate(board, 6, 2, 3)

\* floor(N * N * 0.6) for the sizes of the page.
Target == CASE size = 4 -> 9 [] size = 6 -> 21 [] size = 9 -> 48

\* C21: the puzzle generateUniquePuzzle returns has no more blank cells than
\* the target: 9 for N = 4, 21 for N = 6, 48 for N = 9.
C21_BlanksWithinTarget ==
  (Generated /\ size \in ValidSizes) => Cardinality(Open(puzzle, size)) <= Target

\* C21, as the code has it: a pass of the carving loop starts only with the
\* counter below the target, and a pass takes out a cell or a cell and its
\* partner, so the puzzle returned has at most one blank cell more than the
\* target; the loop has ended with the counter at the target or above, or
\* with every position tried.
C21_BlanksWithinTargetPlusOne ==
  (size \in ValidSizes /\ puzzle # NoGrid /\ full # NoGrid) =>
    /\ targetBlanks = Target
    /\ Cardinality(Open(puzzle, size)) <= Target + 1
    /\ pc = "carveTest" => blanks < Target
    /\ Generated => (blanks >= Target \/ i = size * size)

\* A 4x4 puzzle is returned with 10 blank cells: the counter stood at 8 when
\* the last pair was taken out.
C21_TenBlanks4 ==
  /\ Generated
  /\ size = 4
  /\ full # NoGrid
  /\ blanks = 10
  /\ Cardinality(Open(puzzle, 4)) = 10

\* The grid g with every value noted in the list rem of removals at its cell.
WithRemoved(g, rem) ==
  [r \in 1 .. Len(g) |->
     [c \in 1 .. Len(g[r]) |->
        IF \E k \in 1 .. Len(rem) : rem[k][1] = r - 1 /\ rem[k][2] = c - 1
        THEN rem[CHOOSE k \in 1 .. Len(rem) : rem[k][1] = r - 1 /\ rem[k][2] = c - 1][3]
        ELSE g[r][c]]]

\* C22: the puzzle before a tentative removal is the puzzle after it with the
\* removed values at their cells; the counting search changes neither the
\* puzzle nor the list of removals; and when it has returned 2 or more, the
\* puzzle after the revert is again the tentative puzzle with the removed
\* values at their cells, cell for cell the puzzle before the removal, and
\* the counter of blank cells is as it was.
C22_RevertRestoresExactly ==
  [][/\ (pc = "carve" /\ pc' = "backtrack") =>
          /\ puzzle = WithRemoved(puzzle', removed')
          /\ \A k \in 1 .. Len(removed') : Val(puzzle', <<removed'[k][1], removed'[k][2]>>) = Blank
          /\ blanks' = blanks
     /\ (pc \in {"backtrack", "countLoop"} /\ ret = "carveTest") =>
          (puzzle' = puzzle /\ removed' = removed /\ blanks' = blanks)
     /\ (pc = "carveTest" /\ count >= 2) =>
          /\ puzzle' = WithRemoved(puzzle, removed)
          /\ blanks' = blanks]_vars

\* The pair taken out of a 6x6 puzzle has just been put back after the
\* counting search found two solutions.
C22_PairPutBack6 ==
  /\ pc = "carve"
  /\ ret = "carveTest"
  /\ size = 6
  /\ count >= 2
  /\ Len(removed) = 2
  /\ i > 0
  /\ positions[i] = <<removed[1][1], removed[1][2]>>
  /\ \A k \in 1 .. 2 : Val(puzzle, <<removed[k][1], removed[k][2]>>) = removed[k][3]

\* C23: at the start and at the end of every pass of the carving loop, and
\* when the puzzle is returned, blanks is the number of blank cells of puzzle.
C23_BlanksCountsBlankCells ==
  (full # NoGrid /\ pc \in {"carve", "idle"}) => blanks = Cardinality(Open(puzzle, size))

\* A pair has just been taken out of a 9x9 puzzle for good, and the counter
\* went up by two.
C23_PairCounted9 ==
  /\ pc = "carve"
  /\ ret = "carveTest"
  /\ size = 9
  /\ count = 1
  /\ Len(removed) = 2
  /\ \A k \in 1 .. 2 : Val(puzzle, <<removed[k][1], removed[k][2]>>) = Blank
  /\ blanks > 20
  /\ blanks = Cardinality(Open(puzzle, 9))

\* The point-symmetric partner of a cell.
Partner(p) == <<size - 1 - p[1], size - 1 - p[2]>>

\* C24: within a run of generateUniquePuzzle a uniqueness test starts only on
\* a cell and a partner that are both outside seen, it blanks no other cell,
\* and the step that follows the test puts both into seen, where cells stay;
\* seen holds whole pairs.  So a cell is blanked tentatively at most once,
\* each pair is tested at most once, and countSolutions is called at most
\* ceil(N * N / 2) times, once for each pair in seen.
C24_TestedAtMostOnce ==
  /\ [](puzzle # NoGrid =>
         /\ \A p \in seen : Partner(p) \in seen
         /\ Cardinality({{p, Partner(p)} : p \in seen}) <= (size * size + 1) \div 2)
  /\ [][/\ (pc = "carve" /\ pc' = "backtrack") =>
            /\ positions[i + 1] \notin seen
            /\ Partner(positions[i + 1]) \notin seen
            /\ \A q \in Cells(size) :
                 Val(puzzle', q) # Val(puzzle, q) =>
                   q \in {positions[i + 1], Partner(positions[i + 1])}
        /\ pc = "carveTest" =>
            seen' = seen \cup {positions[i + 1], Partner(positions[i + 1])}
        /\ (full # NoGrid /\ full' # NoGrid) => seen \subseteq seen']_vars

\* The seventh uniqueness test of a 4x4 puzzle has started: six pairs are in
\* seen.
C24_SeventhTest4 ==
  /\ pc = "backtrack"
  /\ ret = "carveTest"
  /\ size = 4
  /\ stack = <<>>
  /\ count = 0
  /\ Cardinality(seen) = 12
  /\ positions[i + 1] \notin seen

\* C25: generateSudoku of the earlier version stores a complete legal
\* solution, and its loop of removals always has a filled cell left to take
\* while it runs, so that it comes to its end.
C25_LegacyStoresLegalSolution ==
  pc \in {"legacyCarve", "legacyDone"} =>
    /\ Legal(solution, size, boxRows, boxCols)
    /\ blanks < targetBlanks => Open(puzzle, size) # Cells(size)

\* The numbers a blank cell p of the grid g can take: those outside its row,
\* column and box.
FreeAt(g, p) == (1 .. size) \ (InRow(g, p[1]) \cup InCol(g, p[2]) \cup InBox(g, p[1], p[2]))

\* Every full grid reached from g, a grid without a duplicate, by writing into
\* a blank cell a number that is free there; the cell taken is one with the
\* fewest free numbers.
RECURSIVE Fillings(_)
Fillings(g) ==
  LET open == Open(g, size)
  IN IF open = {} THEN {g}
     ELSE LET free == [x \in open |-> FreeAt(g, x)]
              cell == CHOOSE x \in open :
                        \A y \in open : Cardinality(free[x]) <= Cardinality(free[y])
          IN UNION {Fillings(Put(g, cell, v)) : v \in free[cell]}

\* C26: every tentative puzzle handed to countSolutions keeps only values of
\* solution, a full grid without a duplicate, and the count that comes back is
\* never 0, so a removal is accepted on a count of exactly 1; between two
\* passes of the carving loop solution is the one and only completion of
\* puzzle.
C26_TestNeverZero ==
  full # NoGrid =>
    /\ pc \in {"backtrack", "countLoop", "carveTest"} => Extends(solution, puzzle, size)
    /\ pc = "carveTest" => count \in {1, 2}
    /\ pc = "carve" =>
         /\ Open(solution, size) = {}
         /\ Extends(solution, puzzle, size)
         /\ Fillings(puzzle) = {solution}

\* The counting search has returned 1 for a tentative 9x9 puzzle with more
\* than 30 blank cells.
C26_CountedOne9 ==
  /\ pc = "carveTest"
  /\ size = 9
  /\ count = 1
  /\ Cardinality(Open(puzzle, 9)) > 30
  /\ Extends(solution, puzzle, 9)

\* C27: between two passes of the carving loop and in the puzzle returned, a
\* cell is blank exactly when the cell opposite to it through the centre of
\* the grid is blank.
C27_BlanksPointSymmetric ==
  (full # NoGrid /\ pc \in {"carve", "idle"}) =>
    \A p \in Cells(size) :
      Val(puzzle, p) = Blank <=> Val(puzzle, <<size - 1 - p[1], size - 1 - p[2]>>) = Blank

\* A 6x6 puzzle is returned with the corner cells (0, 5) and (5, 0) blank and
\* the corner cells (0, 0) and (5, 5) filled.
C27_Corners6 ==
  /\ Generated
  /\ size = 6
  /\ full # NoGrid
  /\ Val(puzzle, <<0, 5>>) = Blank /\ Val(puzzle, <<5, 0>>) = Blank
  /\ Val(puzzle, <<0, 0>>) # Blank /\ Val(puzzle, <<5, 5>>) # Blank

\* C28: on the page at rest, whatever sequence of new games, edits, hints,
\* checks and reloads led to it, every read-only input shows the value the
\* stored solution has for its cell.
C28_ReadOnlyShowsSolution ==
  (pc = "idle" /\ dom # NoDom /\ solution # NoGrid) =>
    \A p \in Cells(dom.n) : dom.readOnly[p] => dom.value[p] = Val(solution, p)

\* C29: the count countSolutions returns is the same whatever the shuffles of
\* the candidates give: for every state of Math.random at the call it is the
\* number of fillings of the grid handed over, capped by the limit, a number
\* that depends on the grid and the limit alone.
C29_CountSameForEveryShuffle ==
  (pc = "returned" /\ stack = <<>>) =>
    count = Min(limit, Cardinality(Fillings(puzzle)))

\* The search of a grid has written the only candidate of each cell it took
\* first, which draws nothing from Math.random, and has then tried every
\* candidate of the first cell with several, in an order other than the one
\* the shuffle gives them in a run of the same grid with another seed; it has
\* counted 2, below the limit.
C29_OtherOrderSameCount ==
  /\ pc = "countLoop"
  /\ stack # <<>>
  /\ \A j \in 1 .. Len(stack) - 1 : Len(stack[j].opts) = 1
  /\ Len(Top(stack).opts) >= 2
  /\ Top(stack).i = Len(Top(stack).opts) + 1
  /\ count = 2
  /\ limit = 3
  /\ \E k \in 0 .. MaxSeedShuffle :
       Top(stack).opts #
         shuffle(Scan(board, size, boxRows, boxCols).opts, SeedState(k)).arr

\* C30: when countSolutions has returned, with any count, and when solveBoard
\* has returned false, the board is cell for cell the grid handed over.
C30_SearchRestoresBoard ==
  (pc = "returned" /\ ~solved) => board = puzzle

\* countSolutions has returned from a 6x6 grid with more than 6 blank cells
\* after leaving the search early with a count of 2, the limit.
C30_LeftEarlyAtTwo6 ==
  /\ pc = "returned"
  /\ stack = <<>>
  /\ size = 6
  /\ count = 2
  /\ limit = 2
  /\ Cardinality(Open(puzzle, 6)) > 6
  /\ board = puzzle

====
